---- MODULE Spec2Model ----
(***************************************************************************)
(* Model of src/mongo/db/repair_database.cpp: repairDatabase, its scoped   *)
(* helpers (doingRepair, RepairFileDeleter) and the file enumerator        *)
(* (_applyOpToDataFiles) with its file operations.                         *)
(*                                                                         *)
(* File ids: NS (-1) is <db>.ns, i >= 0 is the extent file <db>.<i>.       *)
(* A file content is <<gen, id>>: gen 0 is an original file, gen r > 0 a   *)
(* file built by the r-th repair run.                                      *)
(***************************************************************************)
EXTENDS Integers, Sequences, FiniteSets, TLC

\* ---------------------------------------------------------------- bounds
MaxFileNo == 11
MaxExtents == 2
MaxDocs == 2
MaxRuns == 2
MaxFree == 4
MaxNewExtents == 2

\* ------------------------------------------------------------- constants
ExtraInit == 10

NS == -1
Threads == {1, 2}
NoPath == <<"none", 0>>
DataPath == <<"dbpath", 0>>
Docs == {"d1", "d2"}

\* ------------------------------------------------------- generic helpers
Put(f, k, v) == [x \in DOMAIN f \cup {k} |-> IF x = k THEN v ELSE f[x]]
Drop(f, S) == [x \in DOMAIN f \ S |-> f[x]]
Restrict(f, S) == [x \in DOMAIN f \cap S |-> f[x]]
Merge(f, g) == [x \in DOMAIN f \cup DOMAIN g |-> IF x \in DOMAIN g THEN g[x] ELSE f[x]]
EmptyMap == [x \in {} |-> 0]
Range(s) == {s[i] : i \in DOMAIN s}
Prefix(s, k) == [i \in 1..k |-> s[i]]
SeqsUpTo(S, n) == UNION {[1..k -> S] : k \in 0..n}

\* ------------------------------------------- namespaces (NamespaceString)
\* Names are written without the "<db>." prefix.  NameOrder is the order
\* of std::map<string,...>, i.e. the lexicographic order of the full names.
NameOrder == <<"a", "a.$_id_", "gone", "system.indexes", "system.namespaces", "system.users">>
Names == Range(NameOrder)

coll(ns) == ns
isSystem(ns) == ns \in {"system.indexes", "system.namespaces", "system.users"}
isSystemDotIndexes(ns) == coll(ns) = "system.indexes"
isNormal(ns) == ns # "a.$_id_"

\* CollectionOptions::parse: the status and the parsed value of an
\* "options" sub-document.  "none" stands for an absent options field.
OptionDocs == {"none", "capped", "badType", "badSize"}
ParseStatus(o) == CASE o = "badType" -> "TypeMismatch"
                    [] o = "badSize" -> "BadValue"
                    [] OTHER -> "OK"
ParsedOptions(o) == IF o = "capped" THEN "capped:1" ELSE "default"

\* variants of the skip test of lines 341-346
SkipEverySystemName(ns) == isSystem(ns)
SkipOnlySystemIndexes(ns) == isSystem(ns) /\ isSystemDotIndexes(ns)

\* lines 341-346: the two catalog collections are never copied
SkippedCatalogName(ns) ==
    isSystem(ns) /\ (isSystemDotIndexes(ns) \/ coll(ns) = "system.namespaces")

\* lines 334-358: the scan of <db>.system.namespaces.  Yields the status
\* returned by the scan and the namespacesToCopy map built so far.
RECURSIVE ScanCatalog(_, _)
ScanCatalog(cat, acc) ==
    IF cat = <<>> THEN [status |-> "OK", map |-> acc]
    ELSE LET obj == Head(cat)
             ns == obj.name
         IN IF SkippedCatalogName(ns) THEN ScanCatalog(Tail(cat), acc)
            ELSE IF ~isNormal(ns) THEN ScanCatalog(Tail(cat), acc)
            ELSE IF obj.options # "none" /\ ParseStatus(obj.options) # "OK"
                 THEN [status |-> ParseStatus(obj.options), map |-> acc]
            ELSE ScanCatalog(Tail(cat),
                             Put(acc, ns, IF obj.options # "none"
                                          THEN ParsedOptions(obj.options)
                                          ELSE "default"))

\* iteration order of namespacesToCopy (line 362)
CopyOrder(map) == SelectSeq(NameOrder, LAMBDA n : n \in DOMAIN map)

\* ------------------------------------------------- file enumerator
\* variant: a handled file resets the defensive counter
ExtraResetOnHit(extra) == ExtraInit
\* lines 217-222: a handled file leaves the defensive counter as it is
ExtraAfterHit(extra) == extra

\* lines 209-226: the numbered files for which fo.apply returned true, in
\* the order visited; E is the set of ids for which apply returns true.
RECURSIVE ScanFrom(_, _, _)
ScanFrom(E, i, extra) ==
    IF i \in E THEN <<i>> \o ScanFrom(E, i + 1, ExtraAfterHit(extra))
    ELSE IF extra - 1 <= 0 THEN <<>>
    ELSE ScanFrom(E, i + 1, extra - 1)

\* lines 194-227: _applyOpToDataFiles
AppliedFiles(E) == (IF NS \in E THEN <<NS>> ELSE <<>>) \o ScanFrom(E, 0, ExtraInit)

\* lines 131-153: dbSize; every file counts for its size
FileSize(id) == IF id = NS THEN 2 ELSE 1
RECURSIVE SumSizes(_)
SumSizes(s) == IF s = <<>> THEN 0 ELSE FileSize(Head(s)) + SumSizes(Tail(s))
dbSize(files) == SumSizes(AppliedFiles(DOMAIN files))

\* ------------------------------------------------------------------ state
VARIABLES
    proc,            \* "up", "aborted" (fassert / invariant) or "crashed"
    inDBRepair,      \* line 53
    directoryperdb,  \* storageGlobalParams.directoryperdb
    dataFiles,       \* the database's files at the data path: id -> content
    dbDir,           \* whether the directory <dbpath>/<db> exists
    reserved,        \* reserved directories: path -> [files, baks]
    openHandles,     \* paths at which dbHolder holds an open Database
    db,              \* what the database at the data path holds
    runs,            \* number of repairDatabase calls made so far
    maxRuns,         \* number of calls the environment makes
    callers,         \* threads that call repairDatabase
    th               \* per thread: the locals of its repairDatabase call

vars == <<proc, inDBRepair, directoryperdb, dataFiles, dbDir, reserved,
          openHandles, db, runs, maxRuns, callers, th>>

\* the locals of one repairDatabase activation, before the call
IdleThread == [
    pc |-> "idle",
    preserve |-> FALSE,          \* preserveClonedFilesOnFailure
    backup |-> FALSE,            \* backupOriginalFiles
    run |-> 0,                   \* ordinal of this call
    rp |-> NoPath,               \* reservedPath
    guard |-> "none",            \* repairFileDeleter: none / armed / committed
    toCopy |-> EmptyMap,         \* namespacesToCopy
    cur |-> 0,                   \* position in CopyOrder(toCopy)
    doc |-> 0,                   \* documents of the current collection copied
    ib |-> <<>>,                 \* index specs held by indexBlock
    temp |-> EmptyMap,           \* collections of tempDatabase
    status |-> "none",           \* status returned / exception thrown
    thrown |-> FALSE,            \* exit by exception
    freeSize |-> 0,
    totalSize |-> 0,
    stage |-> "copy",            \* copy, disposed (lines 435-442 ran), committed
                                 \* (line 445 passed), installed (line 447 done)
    built |-> {},                \* ids of the files created in the temp database
    fenced |-> {},               \* durability calls completed since the last write
    pre |-> [files |-> EmptyMap, dbDir |-> FALSE, reserved |-> {}, db |-> 0]
                                 \* the files and the database when the call began
]

\* ------------------------------------------------------------ initial states
Layouts == {S \in SUBSET (0..MaxFileNo) : Cardinality(S) <= MaxExtents}
OrigFiles(S) == [f \in {NS} \cup S |-> <<0, f>>]

Entry(n, o) == [name |-> n, options |-> o]
Coll(d, ix, o) == [docs |-> d, indexes |-> ix, options |-> o]
Reverse(s) == [i \in 1..Len(s) |-> s[Len(s) + 1 - i]]

\* a database with one collection, one document and one index
SimpleDb ==
    [hasCatalog |-> TRUE,
     catalog |-> <<Entry("a", "none"), Entry("system.indexes", "none"),
                   Entry("a.$_id_", "none")>>,
     colls |-> [n \in {"a"} |-> Coll(<<"d1">>, <<"i1">>, "default")]]

\* a database that was never written to: no system.namespaces collection
EmptyDb == [hasCatalog |-> FALSE, catalog |-> <<>>, colls |-> EmptyMap]

CollAChoices ==
    {<<>>}
    \cup {<<Coll(d, <<"i1", "i2">>, o)>> :
              d \in SeqsUpTo(Docs, MaxDocs), o \in {"none", "capped", "badType"}}
    \cup {<<Coll(<<"d1">>, <<>>, "none")>>}
CollUChoices ==
    {<<>>, <<Coll(<<"d2">>, <<"i1">>, "none")>>, <<Coll(<<"d2">>, <<"i1">>, "badSize")>>}

\* the database whose collection "a" is ca and "system.users" is cu (each
\* a sequence of at most one collection), with the catalog the engine keeps
\* for it; extra adds a catalog entry for system.namespaces itself or for a
\* collection that no longer exists.
DbOf(ca, cu, extra, rev) ==
    LET ea == IF ca = <<>> THEN <<>>
              ELSE <<Entry("a", ca[1].options)>>
                   \o (IF ca[1].indexes # <<>> THEN <<Entry("a.$_id_", "none")>> ELSE <<>>)
        eu == IF cu = <<>> THEN <<>> ELSE <<Entry("system.users", cu[1].options)>>
        ei == IF (ca # <<>> /\ ca[1].indexes # <<>>) \/ cu # <<>>
              THEN <<Entry("system.indexes", "none")>> ELSE <<>>
        ex == CASE extra = "self" -> <<Entry("system.namespaces", "none")>>
                [] extra = "gone" -> <<Entry("gone", "none")>>
                [] OTHER -> <<>>
        cat == ei \o ea \o ex \o eu
        stored(c) == Coll(c.docs, c.indexes,
                          IF c.options = "none" THEN "default" ELSE ParsedOptions(c.options))
    IN [hasCatalog |-> TRUE,
        catalog |-> IF rev THEN Reverse(cat) ELSE cat,
        colls |-> [n \in (IF ca = <<>> THEN {} ELSE {"a"})
                         \cup (IF cu = <<>> THEN {} ELSE {"system.users"}) |->
                     IF n = "a" THEN stored(ca[1]) ELSE stored(cu[1])]]

Databases ==
    {EmptyDb}
    \cup {DbOf(ca, cu, extra, rev) :
              ca \in CollAChoices, cu \in CollUChoices,
              extra \in {"no", "self", "gone"}, rev \in BOOLEAN}

InitCommon ==
    /\ proc = "up"
    /\ inDBRepair = FALSE
    /\ directoryperdb \in BOOLEAN
    /\ dbDir = directoryperdb
    /\ reserved = EmptyMap
    /\ openHandles = {}
    /\ runs = 0
    /\ th = [t \in Threads |-> IdleThread]

\* one call on every file layout
InitLayouts ==
    /\ InitCommon
    /\ \E S \in Layouts : dataFiles = OrigFiles(S)
    /\ db = SimpleDb
    /\ maxRuns = 1
    /\ callers = {1}

\* one call on every database content
InitDatabases ==
    /\ InitCommon
    /\ dataFiles = OrigFiles({0})
    /\ db \in Databases
    /\ maxRuns = 1
    /\ callers = {1}

\* a sequence of calls
InitRuns ==
    /\ InitCommon
    /\ dataFiles = OrigFiles({0})
    /\ db = SimpleDb
    /\ maxRuns = MaxRuns
    /\ callers = {1}

Init == InitLayouts \/ InitDatabases \/ InitRuns

\* two threads, one call each
InitConc ==
    /\ InitCommon
    /\ dataFiles = OrigFiles({0})
    /\ db = SimpleDb
    /\ maxRuns = 2
    /\ callers = Threads

\* ---------------------------------------------------- file operations
\* lines 179-192: uniqueReservedPath; paths is the set of existing paths
RECURSIVE ProbeFrom(_, _, _)
ProbeFrom(prefix, i, paths) ==
    IF <<prefix, i>> \in paths THEN ProbeFrom(prefix, i + 1, paths) ELSE <<prefix, i>>
\* variant: the first candidate is taken without a probe
uniqueReservedPathUnprobed(prefix, paths) == <<prefix, 0>>
uniqueReservedPath(prefix, paths) == ProbeFrom(prefix, 0, paths)

\* lines 302-304: the prefix of the reserved directory
ReservedPrefix(preserve, backup) == IF preserve \/ backup THEN "backup" ELSE "_tmp"

\* lines 97-106: boostRenameWrapper of file f of directory from to name f
\* of directory to, as far as stage: "renamed" (rename, or copy_file and
\* remove, done), "copied" (copy_file done, remove not) or "not".
boostRenameWrapper(from, to, f, stage) ==
    [from |-> IF stage = "renamed" THEN Drop(from, {f}) ELSE from,
     to |-> IF stage = "not" THEN to ELSE Put(to, f, from[f])]

\* the enumerator applying a rename op to the files seq, in order
RECURSIVE RenameEach(_, _, _)
RenameEach(seq, from, to) ==
    IF seq = <<>> THEN [from |-> from, to |-> to]
    ELSE LET r == boostRenameWrapper(from, to, Head(seq), "renamed")
         IN RenameEach(Tail(seq), r.from, r.to)

\* Every way a renaming enumeration (Renamer, Replacer under
\* _applyOpToDataFiles) can end: completed ("ok"), or stopped at a file by
\* an exception of the file system ("throw") or by the death of the
\* process ("crash"), that file being untouched or copied but not removed.
RenameOutcomes(from, to) ==
    LET seq == AppliedFiles(DOMAIN from)
        whole == RenameEach(seq, from, to)
    IN {[from |-> whole.from, to |-> whole.to, end |-> "ok"]}
       \cup {LET part == RenameEach(Prefix(seq, k), from, to)
                 last == boostRenameWrapper(part.from, part.to, seq[k + 1], stage)
             IN [from |-> last.from, to |-> last.to, end |-> e] :
                k \in 0..(Len(seq) - 1), stage \in {"not", "copied"},
                e \in {"throw", "crash"}}

\* lines 109-129: _renameForBackup, originals into <reserved>/<name>.bak
renameForBackup(files, dir) ==
    {[files |-> o.from, dir |-> [dir EXCEPT !.baks = o.to], end |-> o.end] :
        o \in RenameOutcomes(files, dir.baks)}

\* lines 156-176: _replaceWithRecovered, rebuilt files into the data path
replaceWithRecovered(files, dir) ==
    {[files |-> o.to, dir |-> [dir EXCEPT !.files = o.from], end |-> o.end] :
        o \in RenameOutcomes(dir.files, files)}

\* lines 77-95: _deleteDataFiles.  With directoryperdb the directory
\* <dbpath>/<db> goes with all it holds (a remove_all that fails has removed
\* any part of it); otherwise the enumerator removes file after file.
deleteDataFiles(files, dirperdb, dirExists) ==
    IF dirperdb
    THEN {[files |-> EmptyMap, dbDir |-> FALSE, end |-> "ok"]}
         \cup {[files |-> Drop(files, S), dbDir |-> dirExists, end |-> e] :
                  S \in (SUBSET DOMAIN files) \ {DOMAIN files}, e \in {"throw", "crash"}}
    ELSE LET seq == AppliedFiles(DOMAIN files)
         IN {[files |-> Drop(files, Range(seq)), dbDir |-> dirExists, end |-> "ok"]}
            \cup {[files |-> Drop(files, Range(Prefix(seq, k))), dbDir |-> dirExists,
                   end |-> e] : k \in 0..(Len(seq) - 1), e \in {"throw", "crash"}}

\* lines 439-441: _deleteDataFiles, then create_directory(<dbpath>/<db>)
DeleteAndRecreate(files, dirperdb, dirExists) ==
    LET del == deleteDataFiles(files, dirperdb, dirExists)
    IN {o \in del : o.end # "ok"}
       \cup UNION {{[o EXCEPT !.dbDir = TRUE],
                    [o EXCEPT !.end = "throw"], [o EXCEPT !.end = "crash"]} :
                      o \in {x \in del : x.end = "ok"}}

\* lines 435-442: what has become of the originals, of the reserved
\* directory dir and of <dbpath>/<db> when the disposal ends
DisposeOutcomes(backup, files, dir, dirperdb, dirExists) ==
    IF backup
    THEN {[files |-> o.files, dir |-> o.dir, dbDir |-> dirExists, end |-> o.end] :
             o \in renameForBackup(files, dir)}
    ELSE {[files |-> o.files, dir |-> dir, dbDir |-> o.dbDir, end |-> o.end] :
             o \in DeleteAndRecreate(files, dirperdb, dirExists)}

\* ------------------------------------------------- handles and durability
\* variant: the handle stays in dbHolder
closeDatabaseSkipped(handles, path) == handles
\* lines 252, 428, 432: Database::closeDatabase
closeDatabase(handles, path) == handles \ {path}

\* a write to the temp database: nothing since it is known to be on disk
Written(fenced) == {}
\* lines 248, 288, 424: getDur().syncDataAndTruncateJournal()
syncDataAndTruncateJournal(fenced) == fenced \cup {"sync"}
\* variant: the files are not flushed
flushAllSkipped(fenced) == fenced
\* lines 249, 425: MongoFile::flushAll(true)
flushAll(fenced) == fenced \cup {"flush"}
Durable(fenced) == fenced = {"sync", "flush"}

\* variant: the document is put in front
insertDocumentFirst(docs, d) == <<d>> \o docs
\* line 407: tempCollection->insertDocument( doc, indexBlock )
insertDocument(docs, d) == Append(docs, d)

\* ---------------------------------------------------------------- actions
Me(t) == th[t]
Goto(t, r) == th' = [th EXCEPT ![t] = r]
\* a return of status st: the locals are destroyed, dr first (line 278)
Return(r, st) == [r EXCEPT !.status = st, !.pc = "dtorDr"]
\* variant: the failure is handed back as a status
StatusForThrow(r, st) == [r EXCEPT !.status = st, !.pc = "dtorDr"]
\* an exception leaving repairDatabase
Throw(r, st) == [r EXCEPT !.status = st, !.thrown = TRUE, !.pc = "dtorDr"]

\* Two activations that are both past setup race on the files and on
\* dbHolder; the model follows them until both are past setup, no further.
PastSetup(r) == r.pc \notin {"idle", "ctor", "ctorSet", "done"}
RunsAlone(t) == \A u \in Threads \ {t} : ~PastSetup(th[u])
\* the function has exited: its locals are gone
Exited(r) == [r EXCEPT !.pc = "done", !.toCopy = EmptyMap, !.cur = 0, !.doc = 0,
                       !.ib = <<>>, !.temp = EmptyMap, !.fenced = {}]

\* the content of the database rebuilt from the collections temp
RebuiltDb(temp) ==
    LET names == CopyOrder(temp)
        withIx == {n \in DOMAIN temp : temp[n].indexes # <<>>}
    IN [hasCatalog |-> DOMAIN temp # {},
        catalog |-> [i \in 1..Len(names) |->
                        Entry(names[i], IF temp[names[i]].options = "capped:1"
                                        THEN "capped" ELSE "none")]
                    \o (IF withIx # {} THEN <<Entry("system.indexes", "none")>> ELSE <<>>),
        colls |-> temp]

\* the caller: a thread enters repairDatabase (lines 274-277).  held tells
\* whether dbHolder has the database of the data path open.
Call(t) ==
    /\ proc = "up"
    /\ t \in callers
    /\ Me(t).pc \in {"idle", "done"}
    /\ runs < maxRuns
    /\ \E preserve \in BOOLEAN, backup \in BOOLEAN, held \in BOOLEAN :
          /\ Goto(t, [IdleThread EXCEPT
                        !.pc = "ctor", !.preserve = preserve, !.backup = backup,
                        !.run = runs + 1,
                        !.pre = [files |-> dataFiles, dbDir |-> dbDir,
                                 reserved |-> DOMAIN reserved, db |-> db]])
          /\ openHandles' = IF held THEN openHandles \cup {DataPath}
                            ELSE openHandles \ {DataPath}
    /\ runs' = runs + 1
    /\ UNCHANGED <<proc, inDBRepair, directoryperdb, dataFiles, dbDir, reserved, db,
                   maxRuns, callers>>

\* line 56: verify( ! inDBRepair )
DoingRepairVerify(t) ==
    /\ proc = "up"
    /\ Me(t).pc = "ctor"
    /\ Goto(t, IF inDBRepair
               THEN [Me(t) EXCEPT !.status = "VerifyFailed", !.thrown = TRUE, !.pc = "done"]
               ELSE [Me(t) EXCEPT !.pc = "ctorSet"])
    /\ UNCHANGED <<proc, inDBRepair, directoryperdb, dataFiles, dbDir, reserved,
                   openHandles, db, runs, maxRuns, callers>>

\* line 57: inDBRepair = true
DoingRepairSet(t) ==
    /\ proc = "up"
    /\ Me(t).pc = "ctorSet"
    /\ inDBRepair' = TRUE
    /\ Goto(t, [Me(t) EXCEPT !.pc = "capacity"])
    /\ UNCHANGED <<proc, directoryperdb, dataFiles, dbDir, reserved, openHandles, db,
                   runs, maxRuns, callers>>

\* variant of the test of line 293
OutOfSpaceAboveZero(freeSize, totalSize) == freeSize > 0 /\ freeSize < totalSize
\* line 293
OutOfSpace(freeSize, totalSize) == freeSize > -1 /\ freeSize < totalSize

\* lines 288-298: durability fence, dbSize, File::freeSpace, capacity check
CapacityCheck(t) ==
    /\ proc = "up"
    /\ Me(t).pc = "capacity"
    /\ RunsAlone(t)
    /\ \E freeSize \in -1..MaxFree :
          LET totalSize == dbSize(dataFiles)
              r == [Me(t) EXCEPT !.freeSize = freeSize, !.totalSize = totalSize,
                                 !.fenced = syncDataAndTruncateJournal(@)]
          IN Goto(t, IF OutOfSpace(freeSize, totalSize)
                     THEN Return(r, "OutOfDiskSpace")
                     ELSE [r EXCEPT !.pc = "interrupt"])
    /\ UNCHANGED <<proc, inDBRepair, directoryperdb, dataFiles, dbDir, reserved,
                   openHandles, db, runs, maxRuns, callers>>

\* line 300: killCurrentOp.checkForInterrupt()
InterruptCheck(t) ==
    /\ proc = "up"
    /\ Me(t).pc = "interrupt"
    /\ RunsAlone(t)
    /\ \E interrupted \in BOOLEAN :
          Goto(t, IF interrupted THEN Throw(Me(t), "Interrupted")
                  ELSE [Me(t) EXCEPT !.pc = "reserve", !.freeSize = 0, !.totalSize = 0])
    /\ UNCHANGED <<proc, inDBRepair, directoryperdb, dataFiles, dbDir, reserved,
                   openHandles, db, runs, maxRuns, callers>>

\* variant: the guard is constructed whatever the flag
GuardAlways(preserve) == "armed"
\* lines 308-311: the guard is constructed unless the clone is preserved
GuardFor(preserve) == IF ~preserve THEN "armed" ELSE "none"

\* lines 302-311: reserved path, create_directory, RepairFileDeleter
ReserveDirectory(t) ==
    /\ proc = "up"
    /\ Me(t).pc = "reserve"
    /\ RunsAlone(t)
    /\ LET rp == uniqueReservedPath(ReservedPrefix(Me(t).preserve, Me(t).backup),
                                    DOMAIN reserved)
       IN \E created \in BOOLEAN :
             IF created
             THEN /\ reserved' = Put(reserved, rp, [files |-> EmptyMap, baks |-> EmptyMap])
                  /\ Goto(t, [Me(t) EXCEPT !.rp = rp, !.guard = GuardFor(Me(t).preserve),
                                           !.pc = "open"])
             ELSE /\ reserved' = reserved
                  /\ Goto(t, Throw(Me(t), "FsError"))
    /\ UNCHANGED <<proc, inDBRepair, directoryperdb, dataFiles, dbDir, openHandles, db,
                   runs, maxRuns, callers>>

\* lines 314-323: dbHolder().get, dbHolderW().getOrCreate, invariant(justCreated)
OpenDatabases(t) ==
    /\ proc = "up"
    /\ Me(t).pc = "open"
    /\ RunsAlone(t)
    /\ IF DataPath \notin openHandles
       THEN /\ Goto(t, Return(Me(t), "NamespaceNotFound"))
            /\ UNCHANGED <<proc, openHandles>>
       ELSE LET justCreated == Me(t).rp \notin openHandles
            IN IF justCreated
               THEN /\ openHandles' = openHandles \cup {Me(t).rp}
                    /\ Goto(t, [Me(t) EXCEPT !.pc = "scan"])
                    /\ UNCHANGED proc
               ELSE /\ proc' = "aborted"
                    /\ UNCHANGED <<openHandles, th>>
    /\ UNCHANGED <<inDBRepair, directoryperdb, dataFiles, dbDir, reserved, db,
                   runs, maxRuns, callers>>

\* lines 325-360: namespacesToCopy
CatalogScan(t) ==
    /\ proc = "up"
    /\ Me(t).pc = "scan"
    /\ RunsAlone(t)
    /\ LET r == IF db.hasCatalog THEN ScanCatalog(db.catalog, EmptyMap)
                ELSE [status |-> "OK", map |-> EmptyMap]
       IN Goto(t, IF r.status # "OK" THEN Return(Me(t), r.status)
                  ELSE [Me(t) EXCEPT !.toCopy = r.map, !.cur = 1, !.pc = "coll"])
    /\ UNCHANGED <<proc, inDBRepair, directoryperdb, dataFiles, dbDir, reserved,
                   openHandles, db, runs, maxRuns, callers>>

\* the files a collection created in the temp database makes sure exist
WithFirstFiles(dir, run) ==
    [dir EXCEPT !.files = Merge([f \in {NS, 0} |-> <<run, f>>], dir.files)]
\* the next extent file of the temp database
WithNextExtent(dir, run) ==
    LET n == Cardinality(DOMAIN dir.files \ {NS})
    IN [dir EXCEPT !.files = Put(dir.files, n, <<run, n>>)]

\* lines 362-395: next collection; createCollection, index specs, init
BeginCollection(t) ==
    /\ proc = "up"
    /\ Me(t).pc = "coll"
    /\ RunsAlone(t)
    /\ LET order == CopyOrder(Me(t).toCopy)
           ns == order[Me(t).cur]
       IN IF Me(t).cur > Len(order)
          THEN /\ Goto(t, [Me(t) EXCEPT !.pc = "fence2"])
               /\ UNCHANGED <<proc, reserved>>
          ELSE /\ reserved' = [reserved EXCEPT ![Me(t).rp] = WithFirstFiles(@, Me(t).run)]
               /\ LET r == [Me(t) EXCEPT
                              !.temp = Put(@, ns, Coll(<<>>, <<>>, Me(t).toCopy[ns])),
                              !.built = @ \cup {NS, 0},
                              !.fenced = Written(@)]
                  IN IF ns \notin DOMAIN db.colls
                     THEN /\ proc' = "aborted"      \* line 376
                          /\ Goto(t, r)
                     ELSE /\ UNCHANGED proc
                          /\ \E initOk \in BOOLEAN :
                                Goto(t, IF initOk
                                        THEN [r EXCEPT !.ib = db.colls[ns].indexes,
                                                       !.doc = 0, !.pc = "insert"]
                                        ELSE Return(r, "IndexInitFailed"))
    /\ UNCHANGED <<inDBRepair, directoryperdb, dataFiles, dbDir, openHandles, db,
                   runs, maxRuns, callers>>

\* lines 400-409: the iterator's next document is inserted through the
\* index block
InsertDocument(t) ==
    /\ proc = "up"
    /\ Me(t).pc = "insert"
    /\ RunsAlone(t)
    /\ LET ns == CopyOrder(Me(t).toCopy)[Me(t).cur]
           docs == db.colls[ns].docs
       IN IF Me(t).doc >= Len(docs)
          THEN /\ Goto(t, [Me(t) EXCEPT !.pc = "ibCommit"])
               /\ UNCHANGED reserved
          ELSE \E inserted \in BOOLEAN, grow \in BOOLEAN :
                 IF ~inserted
                 THEN /\ ~grow
                      /\ Goto(t, Return(Me(t), "InsertFailed"))
                      /\ UNCHANGED reserved
                 ELSE /\ grow => Cardinality(DOMAIN reserved[Me(t).rp].files \ {NS})
                                     < MaxNewExtents
                      /\ reserved' = IF grow
                                     THEN [reserved EXCEPT
                                             ![Me(t).rp] = WithNextExtent(@, Me(t).run)]
                                     ELSE reserved
                      /\ Goto(t, [Me(t) EXCEPT
                                     !.temp[ns].docs = insertDocument(@, docs[Me(t).doc + 1]),
                                     !.doc = @ + 1,
                                     !.built = IF grow THEN @ \cup {Cardinality(@ \ {NS})}
                                               ELSE @,
                                     !.fenced = Written(@),
                                     !.pc = "commitIfNeeded"])
    /\ UNCHANGED <<proc, inDBRepair, directoryperdb, dataFiles, dbDir, openHandles, db,
                   runs, maxRuns, callers>>

\* line 411: getDur().commitIfNeeded()
CommitIfNeeded(t) ==
    /\ proc = "up"
    /\ Me(t).pc = "commitIfNeeded"
    /\ RunsAlone(t)
    /\ Goto(t, [Me(t) EXCEPT !.pc = "checkForInterrupt"])
    /\ UNCHANGED <<proc, inDBRepair, directoryperdb, dataFiles, dbDir, reserved,
                   openHandles, db, runs, maxRuns, callers>>

\* line 412: killCurrentOp.checkForInterrupt(false)
CheckForInterrupt(t) ==
    /\ proc = "up"
    /\ Me(t).pc = "checkForInterrupt"
    /\ RunsAlone(t)
    /\ \E interrupted \in BOOLEAN :
          Goto(t, IF interrupted THEN Throw(Me(t), "Interrupted")
                  ELSE [Me(t) EXCEPT !.pc = "insert"])
    /\ UNCHANGED <<proc, inDBRepair, directoryperdb, dataFiles, dbDir, reserved,
                   openHandles, db, runs, maxRuns, callers>>

\* lines 415-420: indexBlock.commit(), then the next collection
CommitIndexBlock(t) ==
    /\ proc = "up"
    /\ Me(t).pc = "ibCommit"
    /\ RunsAlone(t)
    /\ LET ns == CopyOrder(Me(t).toCopy)[Me(t).cur]
       IN \E committed \in BOOLEAN :
             Goto(t, IF committed
                     THEN [Me(t) EXCEPT !.temp[ns].indexes = Me(t).ib, !.ib = <<>>,
                                        !.cur = @ + 1, !.doc = 0, !.pc = "coll",
                                        !.fenced = Written(@)]
                     ELSE Return(Me(t), "IndexCommitFailed"))
    /\ UNCHANGED <<proc, inDBRepair, directoryperdb, dataFiles, dbDir, reserved,
                   openHandles, db, runs, maxRuns, callers>>

\* lines 424-425: syncDataAndTruncateJournal, MongoFile::flushAll(true)
DurabilityFence2(t) ==
    /\ proc = "up"
    /\ Me(t).pc = "fence2"
    /\ RunsAlone(t)
    /\ Goto(t, [Me(t) EXCEPT !.fenced = flushAll(syncDataAndTruncateJournal(@)),
                             !.pc = "closeTemp"])
    /\ UNCHANGED <<proc, inDBRepair, directoryperdb, dataFiles, dbDir, reserved,
                   openHandles, db, runs, maxRuns, callers>>

\* lines 427-428: the temp database is closed
CloseTemp(t) ==
    /\ proc = "up"
    /\ Me(t).pc = "closeTemp"
    /\ RunsAlone(t)
    /\ openHandles' = closeDatabase(openHandles, Me(t).rp)
    /\ Goto(t, [Me(t) EXCEPT !.pc = "closeOrig"])
    /\ UNCHANGED <<proc, inDBRepair, directoryperdb, dataFiles, dbDir, reserved, db,
                   runs, maxRuns, callers>>

\* lines 431-432: the original database is closed
CloseOriginal(t) ==
    /\ proc = "up"
    /\ Me(t).pc = "closeOrig"
    /\ RunsAlone(t)
    /\ openHandles' = closeDatabase(openHandles, DataPath)
    /\ Goto(t, [Me(t) EXCEPT !.pc = "dispose"])
    /\ UNCHANGED <<proc, inDBRepair, directoryperdb, dataFiles, dbDir, reserved, db,
                   runs, maxRuns, callers>>

\* where an enumeration that ended with end leaves the thread r and the process
AfterFileOps(t, r, end, next) ==
    /\ Goto(t, CASE end = "ok" -> [r EXCEPT !.pc = next]
                 [] end = "throw" -> Throw(r, "FsError")
                 [] OTHER -> r)
    /\ proc' = IF end = "crash" THEN "crashed" ELSE proc

\* lines 435-442: the originals are renamed to .bak or deleted
DisposeOriginals(t) ==
    /\ proc = "up"
    /\ Me(t).pc = "dispose"
    /\ RunsAlone(t)
    /\ \E o \in DisposeOutcomes(Me(t).backup, dataFiles, reserved[Me(t).rp],
                                directoryperdb, dbDir) :
          /\ dataFiles' = o.files
          /\ dbDir' = o.dbDir
          /\ reserved' = [reserved EXCEPT ![Me(t).rp] = o.dir]
          /\ db' = IF o.files = dataFiles THEN db ELSE EmptyDb
          /\ AfterFileOps(t, [Me(t) EXCEPT !.stage = "disposed"], o.end, "commit")
    /\ UNCHANGED <<inDBRepair, directoryperdb, openHandles, runs, maxRuns, callers>>

\* lines 444-445: repairFileDeleter->success()
CommitGuard(t) ==
    /\ proc = "up"
    /\ Me(t).pc = "commit"
    /\ RunsAlone(t)
    /\ Goto(t, [Me(t) EXCEPT !.guard = IF @ = "armed" THEN "committed" ELSE @,
                             !.stage = "committed", !.pc = "install"])
    /\ UNCHANGED <<proc, inDBRepair, directoryperdb, dataFiles, dbDir, reserved,
                   openHandles, db, runs, maxRuns, callers>>

\* line 447: the rebuilt files are moved to the data path
InstallRebuilt(t) ==
    /\ proc = "up"
    /\ Me(t).pc = "install"
    /\ RunsAlone(t)
    /\ \E o \in replaceWithRecovered(dataFiles, reserved[Me(t).rp]) :
          /\ dataFiles' = o.files
          /\ reserved' = [reserved EXCEPT ![Me(t).rp] = o.dir]
          /\ db' = IF o.end = "ok" THEN RebuiltDb(Me(t).temp) ELSE db
          /\ AfterFileOps(t, [Me(t) EXCEPT !.stage = IF o.end = "ok" THEN "installed" ELSE @],
                          o.end, "cleanup")
    /\ UNCHANGED <<inDBRepair, directoryperdb, dbDir, openHandles, runs, maxRuns,
                   callers>>

\* lines 449-452: remove_all(reservedPath) unless backup; return OK
FinalCleanup(t) ==
    /\ proc = "up"
    /\ Me(t).pc = "cleanup"
    /\ RunsAlone(t)
    /\ IF Me(t).backup
       THEN /\ Goto(t, Return(Me(t), "OK"))
            /\ UNCHANGED reserved
       ELSE \E removed \in BOOLEAN :
               IF removed
               THEN /\ reserved' = Drop(reserved, {Me(t).rp})
                    /\ Goto(t, Return(Me(t), "OK"))
               ELSE /\ reserved' = reserved
                    /\ Goto(t, Throw(Me(t), "FsError"))
    /\ UNCHANGED <<proc, inDBRepair, directoryperdb, dataFiles, dbDir, openHandles, db,
                   runs, maxRuns, callers>>

\* lines 59-61: ~doingRepair; dr is declared after repairFileDeleter
\* (lines 277-278), so it is destroyed first
DtorDoingRepair(t) ==
    /\ proc = "up"
    /\ Me(t).pc = "dtorDr"
    /\ RunsAlone(t)
    /\ inDBRepair' = FALSE
    /\ Goto(t, [Me(t) EXCEPT !.pc = "dtorGuard"])
    /\ UNCHANGED <<proc, directoryperdb, dataFiles, dbDir, reserved, openHandles, db,
                   runs, maxRuns, callers>>

\* variant: the test of line 241 inverted
GuardActsInverted(guard) == guard = "committed"
\* lines 241-242: the guard acts unless success() was called
GuardActs(guard) == guard = "armed"

\* lines 240-249: ~RepairFileDeleter: nothing after success(); otherwise
\* syncDataAndTruncateJournal and flushAll
DtorGuard(t) ==
    /\ proc = "up"
    /\ Me(t).pc = "dtorGuard"
    /\ RunsAlone(t)
    /\ Goto(t, IF ~GuardActs(Me(t).guard) THEN Exited(Me(t))
               ELSE [Me(t) EXCEPT !.fenced = flushAll(syncDataAndTruncateJournal(@)),
                                  !.pc = "guardClose"])
    /\ UNCHANGED <<proc, inDBRepair, directoryperdb, dataFiles, dbDir, reserved,
                   openHandles, db, runs, maxRuns, callers>>

\* lines 250-253: the guard closes the temp database
GuardClose(t) ==
    /\ proc = "up"
    /\ Me(t).pc = "guardClose"
    /\ RunsAlone(t)
    /\ openHandles' = closeDatabase(openHandles, Me(t).rp)
    /\ Goto(t, [Me(t) EXCEPT !.pc = "guardRemove"])
    /\ UNCHANGED <<proc, inDBRepair, directoryperdb, dataFiles, dbDir, reserved, db,
                   runs, maxRuns, callers>>

\* lines 254-260: remove_all of the reserved directory; a failure of the
\* cleanup is fatal (fassertFailed 17402)
GuardRemove(t) ==
    /\ proc = "up"
    /\ Me(t).pc = "guardRemove"
    /\ RunsAlone(t)
    /\ \E removed \in BOOLEAN :
          IF removed
          THEN /\ reserved' = Drop(reserved, {Me(t).rp})
               /\ Goto(t, Exited(Me(t)))
               /\ UNCHANGED proc
          ELSE /\ proc' = "aborted"
               /\ UNCHANGED <<reserved, th>>
    /\ UNCHANGED <<inDBRepair, directoryperdb, dataFiles, dbDir, openHandles, db,
                   runs, maxRuns, callers>>

Step(t) ==
    \/ Call(t)
    \/ DoingRepairVerify(t)
    \/ DoingRepairSet(t)
    \/ CapacityCheck(t)
    \/ InterruptCheck(t)
    \/ ReserveDirectory(t)
    \/ OpenDatabases(t)
    \/ CatalogScan(t)
    \/ BeginCollection(t)
    \/ InsertDocument(t)
    \/ CommitIfNeeded(t)
    \/ CheckForInterrupt(t)
    \/ CommitIndexBlock(t)
    \/ DurabilityFence2(t)
    \/ CloseTemp(t)
    \/ CloseOriginal(t)
    \/ DisposeOriginals(t)
    \/ CommitGuard(t)
    \/ InstallRebuilt(t)
    \/ FinalCleanup(t)
    \/ DtorDoingRepair(t)
    \/ DtorGuard(t)
    \/ GuardClose(t)
    \/ GuardRemove(t)

Next == \E t \in Threads : Step(t)

\* repairDatabase called by one thread at a time
Spec == Init /\ [][Next]_vars

\* repairDatabase called by two threads of the process
SpecConc == InitConc /\ [][Next]_vars

\* ================================================================ claims
Done(r) == r.pc = "done"
Failed(r) == r.status \notin {"none", "OK"}
ReturnedStatus(r) == Done(r) /\ ~r.thrown /\ r.status # "none"
Count(s, d) == Cardinality({i \in DOMAIN s : s[i] = d})
SameContent(a, b) ==
    /\ DOMAIN a = DOMAIN b
    /\ \A n \in DOMAIN a :
          /\ \A d \in Docs : Count(a[n].docs, d) = Count(b[n].docs, d)
          /\ Range(a[n].indexes) = Range(b[n].indexes)
\* file f built by the call r is in its reserved directory / at the data path
InReserved(r, f) ==
    /\ r.rp \in DOMAIN reserved
    /\ f \in DOMAIN reserved[r.rp].files
    /\ reserved[r.rp].files[f] = <<r.run, f>>
AtDataPath(r, f) == f \in DOMAIN dataFiles /\ dataFiles[f] = <<r.run, f>>

\* C1: whenever repairDatabase returns a status other than OK, the files of
\* the database at the data path are exactly those present when the call
\* began, with the same contents.
C1_NonOkReturnKeepsFiles ==
    \A t \in Threads :
        (ReturnedStatus(th[t]) /\ th[t].status # "OK") => dataFiles = th[t].pre.files

C1_Witness ==
    \E t \in Threads :
        /\ ReturnedStatus(th[t]) /\ th[t].status = "IndexCommitFailed"
        /\ th[t].built # {} /\ th[t].backup /\ ~th[t].preserve

\* C2: a failure before the commit point (an error status, an interrupt or
\* a failure of the file system up to and including the disposal of the
\* originals) leaves every original file in place and unchanged; whenever
\* the guard's cleanup runs, the originals are all at the data path.
C2_FailureBeforeCommitKeepsOriginals ==
    \A t \in Threads :
        (/\ th[t].pc \in {"dtorDr", "dtorGuard", "guardClose", "guardRemove", "done"}
         /\ Failed(th[t])
         /\ th[t].stage \in {"copy", "disposed"})
        => dataFiles = th[t].pre.files

MissingBelow(files, f) == Cardinality({i \in 0..(f - 1) : i \notin DOMAIN files})
Reached(files) == {f \in DOMAIN files : f = NS \/ MissingBelow(files, f) < ExtraInit}

C5_AtMostOnePastSetup ==
    \A t, u \in Threads : t # u => ~(PastSetup(th[t]) /\ PastSetup(th[u]))

\* C6 (as claimed): whenever the reported free space is less than the total
\* size, the call returns OutOfDiskSpace and has created no reserved
\* directory.
C6_LessFreeThanTotalIsOutOfSpace ==
    \A t \in Threads :
        th[t].freeSize < th[t].totalSize
        => /\ th[t].status = "OutOfDiskSpace"
           /\ th[t].rp = NoPath
           /\ DOMAIN reserved = th[t].pre.reserved

\* C6 (amended): whenever the reported free space is known (not negative)
\* and less than the total size, the call returns OutOfDiskSpace and has
\* created no reserved directory.
C6_KnownLessFreeIsOutOfSpace ==
    \A t \in Threads :
        (th[t].freeSize >= 0 /\ th[t].freeSize < th[t].totalSize)
        => /\ th[t].status = "OutOfDiskSpace"
           /\ ~th[t].thrown
           /\ th[t].rp = NoPath
           /\ DOMAIN reserved = th[t].pre.reserved

C6_Witness ==
    \E t \in Threads :
        /\ ReturnedStatus(th[t]) /\ th[t].status = "OutOfDiskSpace"
        /\ th[t].freeSize > 0 /\ th[t].totalSize > th[t].freeSize

\* C7: system.namespaces and system.indexes are never recorded in
\* namespacesToCopy and never created in the temp database.
C7_CatalogCollectionsNeverCopied ==
    \A t \in Threads :
        {"system.namespaces", "system.indexes"}
            \cap (DOMAIN th[t].toCopy \cup DOMAIN th[t].temp) = {}

C7_Witness ==
    \E t \in Threads :
        /\ th[t].pc = "insert"
        /\ \E i, j \in DOMAIN db.catalog :
              /\ db.catalog[i].name = "system.namespaces"
              /\ db.catalog[j].name = "system.indexes"

\* the first entry of the catalog cat that is copied and whose options do
\* not parse
Copied(n) == n \notin {"system.namespaces", "system.indexes"} /\ isNormal(n)
FirstBadOptions(cat, i) ==
    /\ i \in DOMAIN cat
    /\ Copied(cat[i].name)
    /\ ParseStatus(cat[i].options) # "OK"
    /\ \A j \in 1..(i - 1) : Copied(cat[j].name) => ParseStatus(cat[j].options) = "OK"
\* a call that failed between the creation of the reserved directory and
\* the commit point, in one of the ways C8 lists, and has exited
FailedWhileCopying(r) ==
    /\ Done(r) /\ r.rp # NoPath /\ r.stage = "copy"
    /\ r.status \in {"TypeMismatch", "BadValue", "IndexInitFailed", "InsertFailed",
                     "IndexCommitFailed", "Interrupted"}
ParseFailureIsReturned(r) ==
    /\ (Done(r) /\ r.status \in {"TypeMismatch", "BadValue"})
       => /\ ~r.thrown
          /\ \E i \in DOMAIN r.pre.db.catalog :
                /\ FirstBadOptions(r.pre.db.catalog, i)
                /\ r.status = ParseStatus(r.pre.db.catalog[i].options)
    /\ (Done(r) /\ \E i \in DOMAIN r.pre.db.catalog : FirstBadOptions(r.pre.db.catalog, i))
       => r.status # "OK"

\* C8 (as claimed): a call that fails between the creation of the reserved
\* directory and the commit point does not return OK, returns the parser's
\* status for a parse failure, and, whatever the flags, leaves no reserved
\* directory behind.
C8_FailureRemovesReservedDir ==
    \A t \in Threads :
        /\ ParseFailureIsReturned(th[t])
        /\ FailedWhileCopying(th[t])
           => th[t].status # "OK" /\ th[t].rp \notin DOMAIN reserved

\* C8 (amended): the same, the reserved directory being gone when
\* preserve_cloned_files_on_failure is false.
C8_FailureRemovesUnpreservedDir ==
    \A t \in Threads :
        /\ ParseFailureIsReturned(th[t])
        /\ (FailedWhileCopying(th[t]) /\ ~th[t].preserve)
           => th[t].status # "OK" /\ th[t].rp \notin DOMAIN reserved

C8_Witness ==
    \E t \in Threads :
        /\ FailedWhileCopying(th[t]) /\ ~th[t].preserve
        /\ th[t].status = "Interrupted" /\ th[t].built # {}

\* the parts of C9 that need no amendment: from the creation of the
\* reserved directory on a guard exists iff the preserve flag is false; a
\* guard that was not committed has removed the reserved directory when the
\* call has exited; a committed guard has left it alone.
GuardRules(r) ==
    /\ (r.rp = NoPath) => r.guard = "none"
    /\ (r.rp # NoPath) => (r.guard # "none" <=> ~r.preserve)
    /\ (Done(r) /\ r.guard = "armed") => r.rp \notin DOMAIN reserved
    /\ (Done(r) /\ r.guard = "committed" /\ (r.backup \/ r.status # "OK"))
       => r.rp \in DOMAIN reserved
FailedPreserving(r) == Done(r) /\ r.preserve /\ Failed(r) /\ r.rp # NoPath

\* C9 (as claimed): the guard rules, and with the preserve flag every
\* failure after the creation of the reserved directory leaves that
\* directory and the files built in it in place.
C9_PreservedDirKeepsBuiltFiles ==
    \A t \in Threads :
        /\ GuardRules(th[t])
        /\ FailedPreserving(th[t])
           => /\ th[t].rp \in DOMAIN reserved
              /\ \A f \in th[t].built : InReserved(th[t], f)

\* C9 (amended): the guard rules, and with the preserve flag every failure
\* after the creation of the reserved directory leaves that directory in
\* place, with the files built in it when the failure came before the
\* commit point.
C9_PreservedDirKept ==
    \A t \in Threads :
        /\ GuardRules(th[t])
        /\ FailedPreserving(th[t])
           => /\ th[t].rp \in DOMAIN reserved
              /\ th[t].stage \in {"copy", "disposed"}
                 => \A f \in th[t].built : InReserved(th[t], f)

C9_Witness ==
    \E t \in Threads :
        /\ FailedPreserving(th[t]) /\ th[t].stage = "disposed"
        /\ th[t].built # {} /\ th[t].backup

\* C10: from the disposal of the originals on, whether the call goes on,
\* exits or the process dies, every rebuilt file is in the reserved
\* directory or at its place at the data path.
C10_RebuiltFilesNeverLost ==
    \A t \in Threads :
        th[t].stage \in {"disposed", "committed", "installed"}
        => \A f \in th[t].built : InReserved(th[t], f) \/ AtDataPath(th[t], f)

\* a step renames or removes a file of the reserved directory p, or p itself
TempFilesTouched(p) ==
    \/ p \notin DOMAIN reserved'
    \/ \E f \in DOMAIN reserved[p].files : f \notin DOMAIN reserved'[p].files
    \/ (dataFiles' # dataFiles /\ \E t \in Threads : th[t].pc = "install" /\ th[t].rp = p)
\* a step removes an original file or renames it to .bak
OriginalsTouched ==
    \/ \E t \in Threads : th[t].pc = "dispose" /\ dataFiles' # dataFiles
    \/ \E p \in DOMAIN reserved : p \in DOMAIN reserved' /\ reserved'[p].baks # reserved[p].baks

\* C11: on every path a database handle is closed before a remove or a
\* rename touches its files: the temp database is not open in any step
\* that moves the rebuilt files to the data path or deletes the reserved
\* directory (line 450 or the guard), and the original database is not
\* open in any step that deletes an original or renames it to .bak.
C11_HandlesClosedBeforeFileOps ==
    [][/\ \A p \in DOMAIN reserved : TempFilesTouched(p) => p \notin openHandles
       /\ OriginalsTouched => DataPath \notin openHandles]_vars

C11_Witness ==
    \E t \in Threads :
        /\ Done(th[t]) /\ Failed(th[t]) /\ th[t].guard = "armed"
        /\ th[t].built # {} /\ th[t].rp \notin DOMAIN reserved
        /\ th[t].stage = "copy"

\* C12: no remove or rename of a database file happens before the writes
\* that precede it are durable: in every step that deletes or renames an
\* original, moves a rebuilt file or deletes the reserved directory, both
\* syncDataAndTruncateJournal and flushAll(true) have completed since the
\* last write to the temp database.
C12_FileOpsAfterDurabilityFence ==
    [][(OriginalsTouched \/ \E p \in DOMAIN reserved : TempFilesTouched(p))
         => \A t \in Threads : PastSetup(th[t]) => Durable(th[t].fenced)]_vars

C12_Witness ==
    \E t \in Threads :
        /\ th[t].pc = "cleanup" /\ ~th[t].backup
        /\ Durable(th[t].fenced)
        /\ \E n \in DOMAIN th[t].temp : th[t].temp[n].docs # <<>>

\* no ExtraInit consecutive numbers are missing below an extent file of E
EachGapShort(E) ==
    \A f \in E \ {NS} : \A i \in 0..f :
        \E j \in i..(i + ExtraInit - 1) : j \in E \/ j > f

\* C13: the defensive counter is reset on every handled file, so that only
\* consecutive missing numbers count: when every run of missing numbers is
\* shorter than 10, a completed file-by-file deletion of the originals has
\* removed every one of them.
C13_ShortGapsReachEveryFile ==
    \A t \in Threads :
        (/\ th[t].pc = "commit" /\ ~th[t].backup /\ ~directoryperdb
         /\ EachGapShort(DOMAIN th[t].pre.files))
        => dataFiles = EmptyMap

\* C14: without backup the directory <dbpath>/<db> is created only with
\* directoryperdb: without it, a completed disposal of the originals
\* leaves the directory as it was when the call began.
C14_DirectoryOnlyPerDb ==
    \A t \in Threads :
        (th[t].pc = "commit" /\ ~th[t].backup /\ ~directoryperdb)
        => dbDir = th[t].pre.dbDir

\* the options a catalog entry's collection is created with (lines 351-357)
OptionsOf(entry) ==
    IF entry.options = "none" THEN "default" ELSE ParsedOptions(entry.options)
ReturningOk(r) == r.status = "OK" /\ ~r.thrown /\ r.pc \in {"dtorDr", "dtorGuard"}

C16_ReservedPathIsFirstFree ==
    \A t \in Threads :
        th[t].rp # NoPath =>
            LET prefix == IF th[t].preserve \/ th[t].backup THEN "backup" ELSE "_tmp"
            IN /\ th[t].rp[1] = prefix
               /\ th[t].rp \notin th[t].pre.reserved
               /\ \A i \in 0..(th[t].rp[2] - 1) : <<prefix, i>> \in th[t].pre.reserved

C16_Witness ==
    \E t \in Threads :
        /\ th[t].pc = "open" /\ th[t].run = 2
        /\ th[t].rp = <<"backup", 1>>
        /\ <<"backup", 0>> \in DOMAIN reserved
        /\ reserved[<<"backup", 0>>].files # EmptyMap

\* the collection being copied and its source
CopyLoopPcs == {"insert", "commitIfNeeded", "checkForInterrupt", "ibCommit"}
CurrentNs(r) == CopyOrder(r.toCopy)[r.cur]

\* C17: the documents of a collection are inserted one at a time in the
\* order of the source's forward iterator, through the index block that
\* was initialised before the first insert and is committed only after the
\* last; after every insert commitIfNeeded and then the interrupt check
\* run before the next document is read.
C17_InsertsSerialInSourceOrder ==
    /\ [](\A t \in Threads :
            th[t].pc \in CopyLoopPcs =>
                LET ns == CurrentNs(th[t])
                    src == db.colls[ns]
                IN /\ th[t].temp[ns].docs = Prefix(src.docs, th[t].doc)
                   /\ th[t].ib = src.indexes
                   /\ th[t].temp[ns].indexes = <<>>
                   /\ th[t].pc = "ibCommit" => th[t].doc = Len(src.docs))
    /\ [][\A t \in Threads :
            /\ (th[t].pc = "insert" /\ th'[t].doc # th[t].doc)
                 => th'[t].pc = "commitIfNeeded" /\ th'[t].doc = th[t].doc + 1
            /\ (th[t].pc = "commitIfNeeded" /\ th'[t] # th[t])
                 => th'[t].pc = "checkForInterrupt" /\ th'[t].doc = th[t].doc
            /\ (th'[t].pc = "insert" /\ th[t].pc # "insert")
                 => th[t].pc \in {"coll", "checkForInterrupt"}
            /\ (th[t].pc \in CopyLoopPcs /\ th'[t].pc \in {"coll", "fence2"})
                 => th[t].pc = "ibCommit"]_vars

C17_Witness ==
    \E t \in Threads :
        /\ th[t].pc = "ibCommit"
        /\ th[t].temp[CurrentNs(th[t])].docs = <<"d2", "d1">>
        /\ th[t].ib = <<"i1", "i2">>

\* C18: the inDBRepair flag is set for the whole of a run, the cleanup of
\* the guard included: it is still set while the guard closes the temp
\* database and deletes the reserved directory.
C18_FlagSetDuringGuardCleanup ==
    \A t \in Threads :
        th[t].pc \in {"guardClose", "guardRemove"} => inDBRepair

\* C19: over any sequence of runs invariant(justCreated) of line 322 never
\* fires: when a run opens the temp database, dbHolder holds no handle for
\* its reserved path.
C19_TempHandleAlwaysFresh ==
    \A t \in Threads :
        (th[t].pc = "open" /\ DataPath \in openHandles) => th[t].rp \notin openHandles

C19_Witness ==
    \E t \in Threads :
        /\ th[t].pc = "open" /\ th[t].run = 2 /\ DataPath \in openHandles
        /\ \E p \in openHandles : p # DataPath /\ p # th[t].rp

\* C20: whenever repairDatabase has exited, whatever the flags and the
\* outcome, no handle for the reserved path of the run is open.
C20_NoTempHandleAfterExit ==
    \A t \in Threads :
        (Done(th[t]) /\ th[t].rp # NoPath) => th[t].rp \notin openHandles

====
